---------------------------- MODULE Spec2Model ----------------------------
(***************************************************************************)
(* Model of library/aws.py (the boto3_api Ansible module): the key-case    *)
(* converters pc / cc / as_is, the input normaliser fix_input, the output  *)
(* normaliser fix_return and the control flow of main().                   *)
(*                                                                         *)
(* Python strings are sequences of one-character strings, so that split,   *)
(* capitalize, isdigit, startswith and int() are computed character by     *)
(* character.  A tree node is a record [kind, val]:                        *)
(*   "str"  val = sequence of characters     "int"  val = a natural number *)
(*   "bool" val = BOOLEAN                    "null" val = 0                *)
(*   "list" val = sequence of nodes                                        *)
(*   "dict" val = sequence of <<key, node>> pairs with distinct keys, in   *)
(*                the dict's iteration order                               *)
(*   "datetime" val = <<year, month, day>> (at midnight)                   *)
(*   "stream"   val = the name of a StreamingBody                          *)
(*   "bytes"    val = the bytes read from the StreamingBody of that name   *)
(*   "error"    val = the name of the exception raised instead of a value  *)
(***************************************************************************)
EXTENDS Integers, Sequences, FiniteSets, TLC

VARIABLES
    key, case_fn, case_out,            \* one call of pc / cc / as_is
    node, key_int, key_case, out,      \* one call of fix_input
    pc_main, request, has_boto3, client, params, meta_data, response,
    final, log                               \* one run of main()

case_vars  == <<key, case_fn, case_out>>
input_vars == <<node, key_int, key_case, out>>
main_vars  == <<pc_main, request, has_boto3, client, params, meta_data, response,
                final, log>>
vars == <<case_vars, input_vars, main_vars>>

---------------------------------------------------------------------------
(* Characters and strings *)

Lowers == <<"a","b","c","d","e","f","g","h","i","j","k","l","m",
            "n","o","p","q","r","s","t","u","v","w","x","y","z">>
Uppers == <<"A","B","C","D","E","F","G","H","I","J","K","L","M",
            "N","O","P","Q","R","S","T","U","V","W","X","Y","Z">>
Digits == <<"0","1","2","3","4","5","6","7","8","9">>

Range(seq) == {seq[i] : i \in 1..Len(seq)}

\* the lower-case letter of each upper-case letter, and the reverse; the
\* value of each decimal digit
ToLower    == [c \in Range(Uppers) |-> Lowers[CHOOSE i \in 1..Len(Uppers) : Uppers[i] = c]]
ToUpper    == [c \in Range(Lowers) |-> Uppers[CHOOSE i \in 1..Len(Lowers) : Lowers[i] = c]]
DigitValue == [c \in Range(Digits) |-> (CHOOSE i \in 1..Len(Digits) : Digits[i] = c) - 1]

IsDigitChar(c) == c \in DOMAIN DigitValue

\* str.lower() / str.upper() on one character
LowerChar(c) == IF c \in DOMAIN ToLower THEN ToLower[c] ELSE c
UpperChar(c) == IF c \in DOMAIN ToUpper THEN ToUpper[c] ELSE c

\* the sequence with the elements f[1], ..., f[n], as a sequence value
SeqOf(f) == <<>> \o f

\* s[1:]
Rest(s) == IF s = <<>> THEN <<>> ELSE Tail(s)

\* str.isdigit(): non-empty and every character a decimal digit
isdigit(s) == Len(s) > 0 /\ \A i \in 1..Len(s) : IsDigitChar(s[i])

\* str.startswith(prefix)
startswith(s, prefix) ==
    Len(s) >= Len(prefix) /\ \A i \in 1..Len(prefix) : s[i] = prefix[i]

\* int(s) for a digit string s
RECURSIVE int(_)
int(s) ==
    IF s = <<>> THEN 0
    ELSE 10 * int(SubSeq(s, 1, Len(s) - 1)) + DigitValue[s[Len(s)]]

\* str(n) for a natural number n
RECURSIVE str(_)
str(n) ==
    IF n < 10 THEN <<Digits[n + 1]>>
    ELSE str(n \div 10) \o <<Digits[(n % 10) + 1]>>

\* str.capitalize(): first character upper-cased, the others lower-cased
capitalize(token) ==
    SeqOf([i \in 1..Len(token) |->
        IF i = 1 THEN UpperChar(token[i]) ELSE LowerChar(token[i])])

\* str.split('_'): the tokens between underscores, empty tokens included
RECURSIVE split(_)
split(s) ==
    IF \A i \in 1..Len(s) : s[i] # "_" THEN <<s>>
    ELSE LET p == CHOOSE i \in 1..Len(s) :
                     s[i] = "_" /\ \A j \in 1..(i - 1) : s[j] # "_"
         IN  <<SubSeq(s, 1, p - 1)>> \o split(SubSeq(s, p + 1, Len(s)))

\* "".join(tokens)
RECURSIVE join(_)
join(tokens) ==
    IF tokens = <<>> THEN <<>> ELSE Head(tokens) \o join(Tail(tokens))

---------------------------------------------------------------------------
(* Nodes *)

StrNode(s)      == [kind |-> "str",  val |-> s]
IntNode(n)      == [kind |-> "int",  val |-> n]
BoolNode(b)     == [kind |-> "bool", val |-> b]
NullNode        == [kind |-> "null", val |-> 0]
ListNode(items) == [kind |-> "list", val |-> items]
DictNode(pairs) == [kind |-> "dict", val |-> pairs]
Raised(e)       == [kind |-> "error", val |-> e]

IsError(n)  == n.kind = "error"

\* isinstance(node, string_types)
IsString(n) == n.kind = "str"

---------------------------------------------------------------------------
(* Key-case converters.  A converter returns the converted key; cc, which  *)
(* raises IndexError on token[0] of an empty token, returns IndexError,    *)
(* a sequence that is no key (its element is not a single character).      *)

IndexError == <<"IndexError">>

pc(k) ==
    LET tokens == split(k)
    IN  join(SeqOf([i \in 1..Len(tokens) |-> capitalize(tokens[i])]))

cc(k) ==
    LET token == pc(k)
    IN  IF token = <<>> THEN IndexError
        ELSE <<LowerChar(token[1])>> \o Rest(token)

as_is(k) == k

\* Faulty variant: camel and Pascal exchanged
ApplyCaseSwapped(fn, k) ==
    CASE fn = "pc" -> cc(k)
      [] fn = "cc" -> pc(k)
      [] OTHER     -> as_is(k)

\* key_case(item), for the key_case main() chose
ApplyCase(fn, k) ==
    CASE fn = "pc" -> pc(k)
      [] fn = "cc" -> cc(k)
      [] OTHER     -> as_is(k)

---------------------------------------------------------------------------
(* Python dicts *)

Keys(pairs) == {pairs[i][1] : i \in 1..Len(pairs)}

\* d[k] = v: overwrite the value of an existing key in place, else append
SetItem(pairs, k, v) ==
    IF k \in Keys(pairs)
    THEN SeqOf([i \in 1..Len(pairs) |-> IF pairs[i][1] = k THEN <<k, v>> ELSE pairs[i]])
    ELSE Append(pairs, <<k, v>>)

\* d[k] for a key of d
GetItem(pairs, k) == pairs[CHOOSE i \in 1..Len(pairs) : pairs[i][1] = k][2]

\* d.pop(k) for a key of d: the dict without the key
DelItem(pairs, k) == SelectSeq(pairs, LAMBDA p : p[1] # k)

\* dict(list of pairs): the pairs are inserted in order, a later pair
\* overwriting an earlier one of the same key
RECURSIVE dict(_)
dict(pairs) ==
    IF pairs = <<>> THEN <<>>
    ELSE LET front == dict(SubSeq(pairs, 1, Len(pairs) - 1))
             last  == pairs[Len(pairs)]
         IN  SetItem(front, last[1], last[2])

---------------------------------------------------------------------------
(* fix_input *)

OmitPrefix == <<"_","_","o","m","i","t","_">>

\* Faulty variant: only the bare sentinel is recognised
IsOmittedExact(v) == IsString(v) /\ v.val = OmitPrefix

\* the filter of the dict comprehension: the pair is left out
IsOmitted(v) == IsString(v) /\ startswith(v.val, OmitPrefix)

\* Faulty variant: digit strings are converted whatever key_int is
FixStringUnconditional(n, ki) ==
    IF isdigit(n.val) THEN IntNode(int(n.val))
    ELSE IF startswith(n.val, <<"_">>) /\ isdigit(Rest(n.val))
         THEN StrNode(Rest(n.val))
         ELSE n

\* the string branch.  key_int is "yes", "no" or "True" (the boolean True)
FixString(n, ki) ==
    IF isdigit(n.val)
    THEN IF ki = "yes" THEN IntNode(int(n.val))
         ELSE IF ki = "no" THEN n
         ELSE n
    ELSE IF startswith(n.val, <<"_">>) /\ isdigit(Rest(n.val))
         THEN StrNode(Rest(n.val))
         ELSE n

\* the first exception raised while the elements of a comprehension are
\* evaluated in order, or none
FirstError(results) ==
    IF \E i \in 1..Len(results) : IsError(results[i])
    THEN results[CHOOSE i \in 1..Len(results) :
                     IsError(results[i]) /\ \A j \in 1..(i - 1) : ~IsError(results[j])]
    ELSE NullNode

RECURSIVE fix_input(_, _, _)
fix_input(n, ki, kc) ==
    IF n.kind = "list" THEN
        LET items == SeqOf([i \in 1..Len(n.val) |-> fix_input(n.val[i], ki, kc)])
        IN  IF IsError(FirstError(items)) THEN FirstError(items)
            ELSE ListNode(items)
    ELSE IF n.kind = "dict" THEN
        LET kept   == SelectSeq(n.val, LAMBDA p : ~IsOmitted(p[2]))
            ks     == SeqOf([i \in 1..Len(kept) |-> ApplyCase(kc, kept[i][1])])
            vs     == SeqOf([i \in 1..Len(kept) |-> fix_input(kept[i][2], ki, kc)])
            \* each pair evaluates its key, then its value
            raised == SeqOf([i \in 1..(2 * Len(kept)) |->
                          IF i % 2 = 1
                          THEN (IF ks[(i + 1) \div 2] = IndexError
                                THEN Raised("IndexError") ELSE NullNode)
                          ELSE vs[i \div 2]])
        IN  IF IsError(FirstError(raised)) THEN FirstError(raised)
            ELSE DictNode(dict(SeqOf([i \in 1..Len(kept) |-> <<ks[i], vs[i]>>])))
    ELSE IF IsString(n) THEN FixString(n, ki)
    ELSE n

---------------------------------------------------------------------------
(* fix_return.  The result is the value returned and, in order, the names  *)
(* of the StreamingBody objects whose read() was called.                   *)

K_tags    == <<"t","a","g","s">>
K_Tags    == <<"T","a","g","s">>
K_filters == <<"f","i","l","t","e","r","s">>
K_Key     == <<"K","e","y">>
K_Value   == <<"V","a","l","u","e">>
K_key     == <<"k","e","y">>
K_value   == <<"v","a","l","u","e">>
K_Name    == <<"N","a","m","e">>
K_Values  == <<"V","a","l","u","e","s">>
K_changed == <<"c","h","a","n","g","e","d">>
K_boto3   == <<"b","o","t","o","3">>
K_ResponseMetadata ==
    <<"R","e","s","p","o","n","s","e","M","e","t","a","d","a","t","a">>
K_HTTPStatusCode ==
    <<"H","T","T","P","S","t","a","t","u","s","C","o","d","e">>

Pad2(n) == IF n < 10 THEN <<"0">> \o str(n) ELSE str(n)

\* str(datetime) of a midnight instant: "YYYY-MM-DD 00:00:00"
DatetimeStr(d) ==
    str(d[1]) \o <<"-">> \o Pad2(d[2]) \o <<"-">> \o Pad2(d[3])
    \o <<" ","0","0",":","0","0",":","0","0">>

\* Faulty variant: no StreamingBody branch: the body is returned unread
ReadBodySkipped(n) == [val |-> n, reads |-> <<>>]

\* StreamingBody.read(): the body's bytes, and the read itself
ReadBody(n) == [val |-> [kind |-> "bytes", val |-> n.val], reads |-> <<n.val>>]

\* boto3_tag_list_to_ansible_dict (ansible.module_utils.ec2): the dict of
\* tag name -> tag value of a list of {Key, Value} or {key, value} dicts
boto3_tag_list_to_ansible_dict(tags_list) ==
    DictNode(dict(SeqOf([i \in 1..Len(tags_list.val) |->
        LET tag == tags_list.val[i].val
        IN  IF K_key \in Keys(tag)
            THEN <<GetItem(tag, K_key).val, GetItem(tag, K_value)>>
            ELSE <<GetItem(tag, K_Key).val, GetItem(tag, K_Value)>>])))

\* the loop over ('tags', 'Tags'): pop the key and set it again
RECURSIVE ConvertTags(_, _)
ConvertTags(pairs, tag_keys) ==
    IF tag_keys = <<>> THEN pairs
    ELSE LET k == Head(tag_keys)
             d == IF k \in Keys(pairs)
                  THEN SetItem(DelItem(pairs, k), k,
                               boto3_tag_list_to_ansible_dict(GetItem(pairs, k)))
                  ELSE pairs
         IN  ConvertTags(d, Tail(tag_keys))

RECURSIVE ConcatReads(_)
ConcatReads(results) ==
    IF results = <<>> THEN <<>>
    ELSE Head(results).reads \o ConcatReads(Tail(results))

\* the recursive calls pass no convert_tags: it is False below the top
RecursiveConvertTags(convert_tags) == FALSE

RECURSIVE fix_return(_, _)
fix_return(n, convert_tags) ==
    IF n.kind = "datetime" THEN
        [val |-> StrNode(DatetimeStr(n.val)), reads |-> <<>>]
    ELSE IF n.kind = "list" THEN
        LET items == SeqOf([i \in 1..Len(n.val) |->
                         fix_return(n.val[i], RecursiveConvertTags(convert_tags))])
        IN  [val |-> ListNode(SeqOf([i \in 1..Len(items) |-> items[i].val])),
             reads |-> ConcatReads(items)]
    ELSE IF n.kind = "dict" THEN
        LET items == SeqOf([i \in 1..Len(n.val) |->
                         fix_return(n.val[i][2], RecursiveConvertTags(convert_tags))])
            fixed == dict(SeqOf([i \in 1..Len(items) |-> <<n.val[i][1], items[i].val>>]))
        IN  [val |-> DictNode(IF convert_tags
                              THEN ConvertTags(fixed, <<K_tags, K_Tags>>)
                              ELSE fixed),
             reads |-> ConcatReads(items)]
    ELSE IF n.kind = "stream" THEN ReadBody(n)
    ELSE [val |-> n, reads |-> <<>>]

---------------------------------------------------------------------------
(* The helpers of ansible.module_utils.ec2 that main() calls *)

\* camel_to_snake, for keys without two adjacent capitals and without a
\* digit before a capital: an underscore before every capital but the
\* first character, all lower-cased
RECURSIVE camel_to_snake(_, _)
camel_to_snake(k, i) ==
    IF i > Len(k) THEN <<>>
    ELSE (IF i > 1 /\ k[i] \in DOMAIN ToLower THEN <<"_">> ELSE <<>>)
         \o <<LowerChar(k[i])>> \o camel_to_snake(k, i + 1)

RECURSIVE camel_dict_to_snake_dict(_)
camel_dict_to_snake_dict(n) ==
    IF n.kind = "dict" THEN
        DictNode(dict(SeqOf([i \in 1..Len(n.val) |->
            <<camel_to_snake(n.val[i][1], 1), camel_dict_to_snake_dict(n.val[i][2])>>])))
    ELSE IF n.kind = "list" THEN
        ListNode(SeqOf([i \in 1..Len(n.val) |-> camel_dict_to_snake_dict(n.val[i])]))
    ELSE n

\* ansible_dict_to_boto3_tag_list: [{'Key': k, 'Value': v}, ...]
ansible_dict_to_boto3_tag_list(tags) ==
    ListNode(SeqOf([i \in 1..Len(tags) |->
        DictNode(<<<<K_Key, StrNode(tags[i][1])>>, <<K_Value, tags[i][2]>>>>)]))

\* ansible_dict_to_boto3_filter_list: [{'Name': k, 'Values': [v] or v}, ...]
ansible_dict_to_boto3_filter_list(filters) ==
    ListNode(SeqOf([i \in 1..Len(filters) |->
        DictNode(<<<<K_Name, StrNode(filters[i][1])>>,
                   <<K_Values, IF IsString(filters[i][2])
                               THEN ListNode(<<filters[i][2]>>)
                               ELSE filters[i][2]>>>>)]))

---------------------------------------------------------------------------
(* One call of a key-case converter, on every key over KeyAlphabet of at   *)
(* most MaxKeyLen characters.                                              *)

MaxKeyLen == 4
KeyAlphabet == {"a", "b", "_"}

RECURSIVE StringsOver(_, _)
StringsOver(alphabet, n) ==
    IF n = 0 THEN {<<>>}
    ELSE LET shorter == StringsOver(alphabet, n - 1)
         IN  shorter \cup {Append(s, c) : s \in shorter, c \in alphabet}

CaseKeys == StringsOver(KeyAlphabet, MaxKeyLen)

CaseIdle  == key = <<>> /\ case_fn = "none" /\ case_out = <<>>
InputIdle == node = NullNode /\ key_int = "yes" /\ key_case = "as_is" /\ out = NullNode
MainIdle  ==
    /\ pc_main = "idle" /\ request = NullNode /\ has_boto3 = FALSE
    /\ client = "none" /\ params = NullNode /\ meta_data = NullNode
    /\ response = NullNode /\ final = NullNode /\ log = <<>>

CaseInit ==
    /\ key \in CaseKeys /\ case_fn = "none" /\ case_out = <<>>
    /\ InputIdle /\ MainIdle

CallPc ==
    /\ case_fn = "none"
    /\ case_fn' = "pc" /\ case_out' = pc(key)
    /\ UNCHANGED <<key, input_vars, main_vars>>

CallCc ==
    /\ case_fn = "none"
    /\ case_fn' = "cc" /\ case_out' = cc(key)
    /\ UNCHANGED <<key, input_vars, main_vars>>

CallAsIs ==
    /\ case_fn = "none"
    /\ case_fn' = "as_is" /\ case_out' = as_is(key)
    /\ UNCHANGED <<key, input_vars, main_vars>>

CaseNext == CallPc \/ CallCc \/ CallAsIs

SpecCase == CaseInit /\ [][CaseNext]_vars

---------------------------------------------------------------------------
(* One call of fix_input, on every scalar string over StrAlphabet of at    *)
(* most MaxStrLen characters (and the sentinel strings), and on the        *)
(* containers of depth at most MaxDepth built over DeepScalars.            *)

MaxStrLen == 3
MaxDepth  == 2
StrAlphabet == {"0", "1", "_", "a"}

SentinelStrings ==
    {OmitPrefix, OmitPrefix \o <<"x">>, OmitPrefix \o <<"1">>,
     <<"_","_","o","m","i","t">>, <<"_","o","m","i","t","_">>}

TopScalars ==
    {StrNode(s) : s \in StringsOver(StrAlphabet, MaxStrLen) \cup SentinelStrings}
    \cup {IntNode(7), BoolNode(TRUE), NullNode}

DeepScalars ==
    {StrNode(<<"1","2">>), StrNode(<<"_","1","2">>),
     StrNode(OmitPrefix \o <<"x">>), StrNode(<<"_","_","o","m","i","t">>),
     IntNode(7)}

Siblings == {StrNode(<<"0","7">>), StrNode(OmitPrefix)}

InputKeys == {<<"a","_","b">>, <<"a","_","_","b">>, <<"_">>}

\* the key of the sibling pair that follows the pair of key k
SiblingKey(k) ==
    IF k = <<"a","_","b">> THEN <<"a","_","_","b">>
    ELSE IF k = <<"a","_","_","b">> THEN <<"_">>
    ELSE <<"a","_","b">>

\* the containers that hold n: a list or a dict with n and at most one
\* sibling scalar after it
Wrap(n) ==
    {ListNode(<<n>>)}
    \cup {ListNode(<<n, s>>) : s \in Siblings}
    \cup {DictNode(<<<<k, n>>>>) : k \in InputKeys}
    \cup {DictNode(<<<<k, n>>, <<SiblingKey(k), s>>>>) : k \in InputKeys, s \in Siblings}

RECURSIVE Containers(_)
Containers(d) ==
    IF d = 0 THEN DeepScalars
    ELSE LET inner == Containers(d - 1)
         IN  {ListNode(<<>>), DictNode(<<>>)} \cup inner
             \cup UNION {Wrap(n) : n \in inner}

InputNodes == TopScalars \cup Containers(MaxDepth)

KeyInts  == {"yes", "no", "True"}
KeyCases == {"as_is", "cc", "pc"}

InputInit ==
    /\ node \in InputNodes /\ key_int \in KeyInts
    /\ key_case = "none" /\ out = NullNode
    /\ CaseIdle /\ MainIdle

CallFixInput ==
    /\ key_case = "none"
    /\ \E kc \in KeyCases :
          /\ key_case' = kc
          /\ out' = fix_input(node, key_int, kc)
    /\ UNCHANGED <<node, key_int, case_vars, main_vars>>

InputNext == CallFixInput

SpecInput == InputInit /\ [][InputNext]_vars

---------------------------------------------------------------------------
(* One run of main().  request is what the task supplies: params (a dict), *)
(* convert_param_case and convert_to_integer ("absent" when not supplied), *)
(* tags and filters (dicts, as sequences of <<name, value>> pairs), and    *)
(* whether the client has the method named.  log is what the run did, in   *)
(* order: "invoke" (the remote method was called), "read" (read() of a     *)
(* StreamingBody), "exit_json", "fail_json", "raise" (an exception that    *)
(* main() does not catch).  fail_json and exit_json end the process.       *)

Event(ev, arg) == [ev |-> ev, arg |-> arg]

\* argument_spec: the defaults of the options a task leaves out
DefaultConvertToInteger == "True"
DefaultConvertParamCase == "none"

\* module.params
ModuleParam(req, name) ==
    IF name = "convert_to_integer"
    THEN IF req.convert_to_integer = "absent" THEN DefaultConvertToInteger
         ELSE req.convert_to_integer
    ELSE IF name = "convert_param_case"
    THEN IF req.convert_param_case = "absent" THEN DefaultConvertParamCase
         ELSE req.convert_param_case
    ELSE req[name]

\* the choice of key_case
KeyCaseOf(req) ==
    IF ModuleParam(req, "convert_param_case") = "camel" THEN "cc"
    ELSE IF ModuleParam(req, "convert_param_case") = "Pascal" THEN "pc"
    ELSE "as_is"

\* Faulty variant: the tag list goes through fix_input like the rest of params
ExpandTagsNormalized(p, req) ==
    IF ModuleParam(req, "tags") # <<>>
    THEN DictNode(SetItem(p.val, ApplyCase(KeyCaseOf(req), K_tags),
                          fix_input(ansible_dict_to_boto3_tag_list(ModuleParam(req, "tags")),
                                    ModuleParam(req, "convert_to_integer"),
                                    KeyCaseOf(req))))
    ELSE p

\* params[key_case('tags')] = ansible_dict_to_boto3_tag_list(tags)
ExpandTags(p, req) ==
    IF ModuleParam(req, "tags") # <<>>
    THEN DictNode(SetItem(p.val, ApplyCase(KeyCaseOf(req), K_tags),
                          ansible_dict_to_boto3_tag_list(ModuleParam(req, "tags"))))
    ELSE p

\* params[key_case('filters')] = ansible_dict_to_boto3_filter_list(filters)
ExpandFilters(p, req) ==
    IF ModuleParam(req, "filters") # <<>>
    THEN DictNode(SetItem(p.val, ApplyCase(KeyCaseOf(req), K_filters),
                          ansible_dict_to_boto3_filter_list(ModuleParam(req, "filters"))))
    ELSE p

\* Faulty variant: only 200 counts as a success
StatusIs200(meta) == GetItem(meta.val, K_HTTPStatusCode).val = 200

\* str(meta_data['HTTPStatusCode']).startswith('2')
StatusIsSuccess(meta) ==
    startswith(str(GetItem(meta.val, K_HTTPStatusCode).val), <<"2">>)

Boto3Version == StrNode(<<"1",".","4">>)

\* the statements after the call, inside the try
AfterCall(resp) ==
    LET meta      == GetItem(resp.val, K_ResponseMetadata)
        popped    == DelItem(resp.val, K_ResponseMetadata)
        versioned == SetItem(popped, K_boto3, Boto3Version)
    IN  DictNode(IF StatusIsSuccess(meta)
                 THEN SetItem(versioned, K_changed, BoolNode(TRUE))
                 ELSE versioned)

CheckDependencies ==
    /\ pc_main = "start"
    /\ IF ~has_boto3
       THEN /\ log' = Append(log, Event("fail_json", "boto3 is required for this module."))
            /\ pc_main' = "failed"
       ELSE /\ log' = log
            /\ pc_main' = "connect"
    /\ UNCHANGED <<request, has_boto3, client, params, meta_data, response, final,
                   case_vars, input_vars>>

ConnectOutcomes == {"ok", "ClientError", "EndpointConnectionError"}

Connect ==
    /\ pc_main = "connect"
    /\ \E outcome \in ConnectOutcomes :
          IF outcome = "ok"
          THEN /\ client' = "client"
               /\ log' = log
               /\ pc_main' = "prepare"
          ELSE /\ client' = client
               /\ log' = Append(log, Event("fail_json",
                             IF outcome = "ClientError" THEN "Can't authorize connection"
                             ELSE "Connection Error"))
               /\ pc_main' = "failed"
    /\ UNCHANGED <<request, has_boto3, params, meta_data, response, final,
                   case_vars, input_vars>>

\* getattr(client, method), the choice of key_case, fix_input
FixInput ==
    /\ pc_main = "prepare"
    /\ IF ~request.method_known
       THEN /\ log' = Append(log, Event("raise", "AttributeError"))
            /\ pc_main' = "crashed"
            /\ params' = params
       ELSE LET p == fix_input(ModuleParam(request, "params"),
                               ModuleParam(request, "convert_to_integer"),
                               KeyCaseOf(request))
            IN  IF IsError(p)
                THEN /\ log' = Append(log, Event("raise", p.val))
                     /\ pc_main' = "crashed"
                     /\ params' = params
                ELSE /\ log' = log
                     /\ pc_main' = "expand"
                     /\ params' = IF p.kind = "dict" THEN p ELSE DictNode(<<>>)
    /\ UNCHANGED <<request, has_boto3, client, meta_data, response, final,
                   case_vars, input_vars>>

Expand ==
    /\ pc_main = "expand"
    /\ params' = ExpandFilters(ExpandTags(params, request), request)
    /\ pc_main' = "invoke"
    /\ UNCHANGED <<request, has_boto3, client, meta_data, response, final, log,
                   case_vars, input_vars>>

InvokeErrors == {"ClientError", "EndpointConnectionError"}

Metadata(code) == DictNode(<<<<K_HTTPStatusCode, IntNode(code)>>>>)

StatusCodes == {200, 204, 301, 404, 500}

K_Foo      == <<"F","o","o">>
K_Body     == <<"B","o","d","y">>
K_Items    == <<"I","t","e","m","s">>
K_Instance == <<"I","n","s","t","a","n","c","e">>
K_LaunchTime == <<"L","a","u","n","c","h","T","i","m","e">>

TagList ==
    ListNode(<<DictNode(<<<<K_Key, StrNode(K_Name)>>, <<K_Value, StrNode(<<"e","n","v">>)>>>>),
               DictNode(<<<<K_Key, StrNode(<<"n">>)>>, <<K_Value, StrNode(<<"1","2">>)>>>>)>>)

Stream(name)   == [kind |-> "stream", val |-> name]
Datetime(y, m, d) == [kind |-> "datetime", val |-> <<y, m, d>>]

\* what the remote method returns, without its ResponseMetadata
ResponseBodies ==
    { <<<<K_Foo, StrNode(<<"b","a","r">>)>>>>,
      <<<<K_Tags, TagList>>, <<K_Foo, IntNode(7)>>>>,
      <<<<K_Instance, DictNode(<<<<K_Tags, TagList>>>>)>>>>,
      <<<<K_Items, ListNode(<<DictNode(<<<<K_tags, TagList>>>>)>>)>>>>,
      <<<<K_Body, Stream("body1")>>>>,
      <<<<K_Items, ListNode(<<DictNode(<<<<K_Body, Stream("body1")>>>>),
                              Stream("body2")>>)>>,
        <<K_LaunchTime, Datetime(2016, 3, 9)>>>>,
      <<<<K_Instance, DictNode(<<<<K_LaunchTime, Datetime(2017, 11, 30)>>,
                                 <<K_Body, Stream("body3")>>>>)>>>> }

Responses ==
    {DictNode(<<<<K_ResponseMetadata, Metadata(code)>>>> \o body) :
        code \in StatusCodes, body \in ResponseBodies}

\* Faulty variant: a client error is retried once before it is reported
InvokeRetrying ==
    /\ pc_main = "invoke"
    /\ \/ \E outcome \in Responses :
             /\ meta_data' = GetItem(outcome.val, K_ResponseMetadata)
             /\ response' = AfterCall(outcome)
             /\ log' = Append(log, Event("invoke", request.method))
             /\ pc_main' = "normalize"
       \/ \E outcome \in InvokeErrors :
             /\ meta_data' = meta_data
             /\ response' = response
             /\ IF outcome = "ClientError" /\ log = <<>>
                THEN /\ log' = <<Event("invoke", request.method)>>
                     /\ pc_main' = "invoke"
                ELSE /\ log' = log \o <<Event("invoke", request.method),
                                         IF outcome = "ClientError"
                                         THEN Event("fail_json", "Client error")
                                         ELSE Event("raise", outcome)>>
                     /\ pc_main' = IF outcome = "ClientError" THEN "failed" ELSE "crashed"
    /\ UNCHANGED <<request, has_boto3, client, params, final, case_vars, input_vars>>

\* the try block: the call and the statements after it
Invoke ==
    /\ pc_main = "invoke"
    /\ \/ \E outcome \in Responses :
             /\ meta_data' = GetItem(outcome.val, K_ResponseMetadata)
             /\ response' = AfterCall(outcome)
             /\ log' = Append(log, Event("invoke", request.method))
             /\ pc_main' = "normalize"
       \/ \E outcome \in InvokeErrors :
             /\ meta_data' = meta_data
             /\ response' = response
             /\ log' = log \o <<Event("invoke", request.method),
                                IF outcome = "ClientError"
                                THEN Event("fail_json", "Client error")
                                ELSE Event("raise", outcome)>>
             /\ pc_main' = IF outcome = "ClientError" THEN "failed" ELSE "crashed"
    /\ UNCHANGED <<request, has_boto3, client, params, final, case_vars, input_vars>>

\* camel_dict_to_snake_dict(fix_return(response, convert_tags=True))
Normalize ==
    /\ pc_main = "normalize"
    /\ LET fixed == fix_return(response, TRUE)
       IN  /\ final' = camel_dict_to_snake_dict(fixed.val)
           /\ log' = log \o SeqOf([i \in 1..Len(fixed.reads) |-> Event("read", fixed.reads[i])])
    /\ pc_main' = "exit"
    /\ UNCHANGED <<request, has_boto3, client, params, meta_data, response,
                   case_vars, input_vars>>

ExitJson ==
    /\ pc_main = "exit"
    /\ log' = Append(log, Event("exit_json", "response"))
    /\ pc_main' = "done"
    /\ UNCHANGED <<request, has_boto3, client, params, meta_data, response, final,
                   case_vars, input_vars>>

K_max_items == <<"m","a","x","_","i","t","e","m","s">>
K_ids       == <<"i","d","s">>
K_size      == <<"s","i","z","e">>

\* the params of the tasks
RequestParams ==
    { DictNode(<<>>),
      DictNode(<<<<K_max_items, StrNode(<<"1","2">>)>>,
                 <<K_ids, ListNode(<<StrNode(<<"_","1","2">>),
                                     DictNode(<<<<K_size, StrNode(<<"0","7">>)>>>>)>>)>>>>),
      DictNode(<<<<K_tags, StrNode(<<"x">>)>>,
                 <<K_size, StrNode(OmitPrefix \o <<"x">>)>>>>),
      DictNode(<<<<K_Tags, ListNode(<<StrNode(<<"3">>)>>)>>>>),
      DictNode(<<<<<<"_">>, IntNode(7)>>>>) }

RequestTags ==
    { <<>>,
      <<<<K_Name, StrNode(<<"e","n","v">>)>>>>,
      <<<<<<"n">>, StrNode(<<"1","2">>)>>, <<<<"k">>, StrNode(OmitPrefix)>>>> }

RequestFilters ==
    { <<>>,
      <<<<<<"f">>, StrNode(<<"v">>)>>>>,
      <<<<<<"f">>, ListNode(<<StrNode(<<"v">>), StrNode(<<"1">>)>>)>>>> }

Requests ==
    [ service : {"ec2"},
      method  : {"describe_instances"},
      method_known : BOOLEAN,
      params  : RequestParams,
      convert_param_case : {"absent", "camel", "Pascal"},
      convert_to_integer : {"absent", "yes", "no"},
      tags    : RequestTags,
      filters : RequestFilters ]

Init ==
    /\ pc_main = "start"
    /\ request \in Requests
    /\ has_boto3 \in BOOLEAN
    /\ client = "none" /\ params = NullNode /\ meta_data = NullNode
    /\ response = NullNode /\ final = NullNode /\ log = <<>>
    /\ CaseIdle /\ InputIdle

Next ==
    \/ CheckDependencies
    \/ Connect
    \/ FixInput
    \/ Expand
    \/ Invoke
    \/ Normalize
    \/ ExitJson

Spec == Init /\ [][Next]_vars

---------------------------------------------------------------------------
(* Properties of the key-case converters *)

IsBlankKey(k) == \A i \in 1..Len(k) : k[i] = "_"

\* s with only its first character lower-cased
LowerFirst(s) == SeqOf([i \in 1..Len(s) |-> IF i = 1 THEN LowerChar(s[i]) ELSE s[i]])

\* the letters of k in order, each one that starts k or follows an
\* underscore upper-cased, the underscores left out
RECURSIVE Pascal(_, _)
Pascal(k, i) ==
    IF i > Len(k) THEN <<>>
    ELSE IF k[i] = "_" THEN Pascal(k, i + 1)
    ELSE <<IF i = 1 \/ k[i - 1] = "_" THEN UpperChar(k[i]) ELSE LowerChar(k[i])>>
         \o Pascal(k, i + 1)

\* C5: for every non-empty key of lower-case letters and underscores, pc and
\* cc return without raising, empty tokens contribute nothing, and cc(x) is
\* pc(x) with only its first character lower-cased.
C5_CaseNeverRaises ==
    (key # <<>> /\ case_fn \in {"pc", "cc"}) =>
        /\ case_out # IndexError
        /\ case_fn = "pc" => case_out = Pascal(key, 1)
        /\ case_fn = "cc" => case_out = LowerFirst(Pascal(key, 1))

---------------------------------------------------------------------------
(* Properties of fix_input *)

Called == key_case # "none"
Returned == Called /\ ~IsError(out)

IsContainer(n) == n.kind \in {"list", "dict"}

\* the string starts with the omit sentinel
HasOmitSentinel(v) ==
    v.kind = "str" /\ Len(v.val) >= 7 /\ SubSeq(v.val, 1, 7) = <<"_","_","o","m","i","t","_">>

AllDigits(s) == s # <<>> /\ \A i \in 1..Len(s) : s[i] \in {"0","1","2","3","4","5","6","7","8","9"}

RECURSIVE StripZeros(_)
StripZeros(s) == IF Len(s) > 1 /\ s[1] = "0" THEN StripZeros(Tail(s)) ELSE s

\* the key a pair's key is converted to
Conv(kc, k) == IF kc = "pc" THEN pc(k) ELSE IF kc = "cc" THEN cc(k) ELSE k

\* the pairs of a mapping that are not dropped
KeptPairs(pairs) == {i \in 1..Len(pairs) : ~HasOmitSentinel(pairs[i][2])}

\* what C2 says of a scalar i and the value o returned for it
ScalarAsClaimed(i, o, ki) ==
    IF i.kind # "str" THEN o = i
    ELSE IF AllDigits(i.val) THEN
        /\ ki = "yes" => o.kind = "int" /\ str(o.val) = StripZeros(i.val)
        /\ ki = "no"  => o = i
    ELSE IF Len(i.val) > 1 /\ i.val[1] = "_" /\ AllDigits(Tail(i.val))
         THEN o = StrNode(Tail(i.val))
         ELSE o = i

RECURSIVE ScalarsAsClaimed(_, _, _, _)
ScalarsAsClaimed(i, o, ki, kc) ==
    IF i.kind = "list" THEN
        /\ o.kind = "list" /\ Len(o.val) = Len(i.val)
        /\ \A x \in 1..Len(i.val) : ScalarsAsClaimed(i.val[x], o.val[x], ki, kc)
    ELSE IF i.kind = "dict" THEN
        /\ o.kind = "dict"
        /\ \A y \in 1..Len(o.val) : \E x \in KeptPairs(i.val) :
              /\ Conv(kc, i.val[x][1]) = o.val[y][1]
              /\ ScalarsAsClaimed(i.val[x][2], o.val[y][2], ki, kc)
    ELSE ScalarAsClaimed(i, o, ki)

\* C2: every scalar string, at any depth, is returned as its integer value
\* (digits, key_int "yes"), verbatim (digits, key_int "no"), without its
\* leading underscore ('_' and digits, either flag), unchanged otherwise;
\* other scalars are returned unchanged.
C2_ScalarRules == Returned => ScalarsAsClaimed(node, out, key_int, key_case)

C2_Witness ==
    /\ node = ListNode(<<DictNode(<<<<<<"a","_","b">>, StrNode(<<"_","1","2">>)>>,
                                    <<<<"a","_","_","b">>, StrNode(<<"0","7">>)>>>>)>>)
    /\ key_int = "yes" /\ key_case = "as_is"
    /\ out = ListNode(<<DictNode(<<<<<<"a","_","b">>, StrNode(<<"1","2">>)>>,
                                   <<<<"a","_","_","b">>, IntNode(7)>>>>)>>)

\* the total count of sequence elements of a tree
RECURSIVE SeqCount(_)
RECURSIVE SumCounts(_)
SumCounts(nodes) ==
    IF nodes = <<>> THEN 0 ELSE SeqCount(Head(nodes)) + SumCounts(Tail(nodes))
SeqCount(n) ==
    IF n.kind = "list" THEN Len(n.val) + SumCounts(n.val)
    ELSE IF n.kind = "dict" THEN SumCounts(SeqOf([x \in 1..Len(n.val) |-> n.val[x][2]]))
    ELSE 0

\* container kind is preserved at every position, and every mapping has
\* exactly the converted keys of its pairs that were not dropped
RECURSIVE SameShape(_, _, _)
SameShape(i, o, kc) ==
    IF i.kind = "list" THEN
        /\ o.kind = "list" /\ Len(o.val) = Len(i.val)
        /\ \A x \in 1..Len(i.val) : SameShape(i.val[x], o.val[x], kc)
    ELSE IF i.kind = "dict" THEN
        /\ o.kind = "dict"
        /\ Keys(o.val) = {Conv(kc, i.val[x][1]) : x \in KeptPairs(i.val)}
        /\ \A y \in 1..Len(o.val) : \E x \in KeptPairs(i.val) :
              /\ Conv(kc, i.val[x][1]) = o.val[y][1]
              /\ SameShape(i.val[x][2], o.val[y][2], kc)
    ELSE ~IsContainer(o)

\* some mapping of the tree has two kept pairs whose keys convert alike
RECURSIVE HasCollision(_, _)
HasCollision(n, kc) ==
    IF n.kind = "list" THEN \E x \in 1..Len(n.val) : HasCollision(n.val[x], kc)
    ELSE IF n.kind = "dict" THEN
        \/ \E x, y \in KeptPairs(n.val) :
              x # y /\ Conv(kc, n.val[x][1]) = Conv(kc, n.val[y][1])
        \/ \E x \in KeptPairs(n.val) : HasCollision(n.val[x][2], kc)
    ELSE FALSE

\* some kept pair of the tree has a key without any letter
RECURSIVE ReachesBlankKey(_)
ReachesBlankKey(n) ==
    IF n.kind = "list" THEN \E x \in 1..Len(n.val) : ReachesBlankKey(n.val[x])
    ELSE IF n.kind = "dict" THEN
        \E x \in KeptPairs(n.val) :
            IsBlankKey(n.val[x][1]) \/ ReachesBlankKey(n.val[x][2])
    ELSE FALSE

\* C3 as stated: fix_input preserves the total count of sequence elements,
\* the set of converted, non-dropped keys of every mapping and the container
\* kind at every position.
C3_ShapeAndCountPreserved ==
    Returned => SameShape(node, out, key_case) /\ SeqCount(out) = SeqCount(node)

\* C3 as amended: fix_input raises exactly when the case function is cc and
\* a kept key has no letter; when it returns, kinds and key sets are as
\* stated, the count of sequence elements never grows, and it is preserved
\* when no mapping has two kept pairs whose keys convert to the same key.
C3_ShapePreservedCountUnlessCollision ==
    Called =>
        /\ IsError(out) <=> (key_case = "cc" /\ ReachesBlankKey(node))
        /\ ~IsError(out) =>
              /\ SameShape(node, out, key_case)
              /\ SeqCount(out) <= SeqCount(node)
              /\ ~HasCollision(node, key_case) => SeqCount(out) = SeqCount(node)

C3_Witness ==
    /\ node = DictNode(<<<<<<"a","_","b">>,
                          ListNode(<<StrNode(<<"1","2">>), StrNode(<<"0","7">>)>>)>>,
                        <<<<"a","_","_","b">>, StrNode(OmitPrefix)>>>>)
    /\ key_int = "no" /\ key_case = "cc"
    /\ out = DictNode(<<<<<<"a","B">>,
                         ListNode(<<StrNode(<<"1","2">>), StrNode(<<"0","7">>)>>)>>>>)

\* what C4 says of the mappings of i and the mappings of o returned for them
RECURSIVE OmittedAsClaimed(_, _, _)
OmittedAsClaimed(i, o, kc) ==
    IF i.kind = "list" THEN
        /\ o.kind = "list" /\ Len(o.val) = Len(i.val)
        /\ \A x \in 1..Len(i.val) : OmittedAsClaimed(i.val[x], o.val[x], kc)
    ELSE IF i.kind = "dict" THEN
        /\ o.kind = "dict"
        /\ \A x \in 1..Len(i.val) :
              IF HasOmitSentinel(i.val[x][2])
              THEN \/ Conv(kc, i.val[x][1]) \notin Keys(o.val)
                   \/ \E z \in KeptPairs(i.val) :
                         Conv(kc, i.val[z][1]) = Conv(kc, i.val[x][1])
              ELSE Conv(kc, i.val[x][1]) \in Keys(o.val)
        /\ \A y \in 1..Len(o.val) :
              /\ ~HasOmitSentinel(o.val[y][2])
              /\ \E x \in KeptPairs(i.val) :
                    /\ Conv(kc, i.val[x][1]) = o.val[y][1]
                    /\ OmittedAsClaimed(i.val[x][2], o.val[y][2], kc)
    ELSE TRUE

\* C4: in every mapping, at any depth, a pair whose value is a string that
\* starts with '__omit_' is dropped (its converted key is absent unless a
\* kept pair converts to the same key) and every other pair is kept.
C4_OmittedPairsDropped == Returned => OmittedAsClaimed(node, out, key_case)

C4_Witness ==
    /\ node = ListNode(<<DictNode(<<<<<<"a","_","b">>, StrNode(<<"_","_","o","m","i","t">>)>>,
                                    <<<<"a","_","_","b">>, StrNode(OmitPrefix)>>>>),
                         StrNode(OmitPrefix)>>)
    /\ key_case = "as_is"
    /\ out = ListNode(<<DictNode(<<<<<<"a","_","b">>, StrNode(<<"_","_","o","m","i","t">>)>>>>),
                        StrNode(OmitPrefix)>>)

---------------------------------------------------------------------------
(* Properties of main() *)

EventsOf(ev) == {i \in 1..Len(log) : log[i].ev = ev}
Count(ev)    == Cardinality(EventsOf(ev))

Invoked    == Count("invoke") > 0
Terminated == pc_main \in {"done", "failed", "crashed"}

RECURSIVE HasDigitString(_)
HasDigitString(n) ==
    IF n.kind = "str" THEN AllDigits(n.val)
    ELSE IF n.kind = "list" THEN \E x \in 1..Len(n.val) : HasDigitString(n.val[x])
    ELSE IF n.kind = "dict" THEN \E x \in 1..Len(n.val) : HasDigitString(n.val[x][2])
    ELSE FALSE

RECURSIVE NoTagListLeft(_)
NoTagListLeft(n) ==
    IF n.kind = "list" THEN \A x \in 1..Len(n.val) : NoTagListLeft(n.val[x])
    ELSE IF n.kind = "dict" THEN
        \A x \in 1..Len(n.val) :
            /\ n.val[x][1] \in {K_tags, K_Tags} => n.val[x][2].kind = "dict"
            /\ NoTagListLeft(n.val[x][2])
    ELSE TRUE

\* C6: with convert_tags true, every mapping of the response, at any depth,
\* that has a key 'tags' or 'Tags' has the tag list at that key replaced by
\* a plain mapping.
C6_TagListsConvertedAtAnyDepth ==
    pc_main \in {"exit", "done"} => NoTagListLeft(final)

RECURSIVE LeadingDigit(_)
LeadingDigit(n) == IF n < 10 THEN n ELSE LeadingDigit(n \div 10)

StatusCode == GetItem(meta_data.val, K_HTTPStatusCode).val

ChangedIsTrue ==
    K_changed \in Keys(final.val) /\ GetItem(final.val, K_changed) = BoolNode(TRUE)

K_response_metadata ==
    <<"r","e","s","p","o","n","s","e","_","m","e","t","a","d","a","t","a">>

\* C7: once the remote call has returned a response, no error is reported,
\* and the response emitted has changed = true iff the first digit of the
\* status code is 2, and has no ResponseMetadata.
C7_ChangedIffStatus2xx ==
    /\ meta_data # NullNode =>
          /\ pc_main \in {"normalize", "exit", "done"}
          /\ Count("fail_json") = 0 /\ Count("raise") = 0
    /\ pc_main = "done" =>
          /\ ChangedIsTrue <=> LeadingDigit(StatusCode) = 2
          /\ Keys(final.val) \cap {K_ResponseMetadata, K_response_metadata} = {}

C7_Witness ==
    /\ pc_main = "done" /\ StatusCode = 204 /\ ChangedIsTrue
    /\ K_Foo \in Keys(response.val)

\* every event after the first event ev of the log
NothingAfter(ev) == \A i \in EventsOf(ev) : i = Len(log)

UncaughtExceptions == {"AttributeError", "IndexError", "EndpointConnectionError"}

\* C8 as stated: every run ends with exactly one of exit_json and fail_json,
\* never both; nothing follows a fail_json; the remote method is invoked at
\* most once.
C8_ExactlyOneOfExitOrFail ==
    /\ Count("exit_json") + Count("fail_json") <= 1
    /\ Count("invoke") <= 1
    /\ NothingAfter("fail_json")
    /\ Terminated => Count("exit_json") + Count("fail_json") = 1

\* C8 as amended: a run ends with exactly one of exit_json, fail_json and an
\* exception main() does not catch (an unknown method, cc on a key without
\* letters, an endpoint error during the call); nothing follows it; never
\* both a response and an error; the remote method is invoked at most once.
C8_AtMostOneOutcome ==
    /\ Count("exit_json") + Count("fail_json") + Count("raise") <= 1
    /\ Count("invoke") <= 1
    /\ NothingAfter("fail_json") /\ NothingAfter("exit_json") /\ NothingAfter("raise")
    /\ \A i \in EventsOf("raise") : log[i].arg \in UncaughtExceptions
    /\ \A i \in EventsOf("exit_json") : \E j \in EventsOf("invoke") : j < i
    /\ Terminated <=>
          Count("exit_json") + Count("fail_json") + Count("raise") = 1

C8_Witness ==
    /\ pc_main = "failed"
    /\ log = <<Event("invoke", "describe_instances"), Event("fail_json", "Client error")>>

TagsKeyExpected == IF request.convert_param_case = "Pascal" THEN K_Tags ELSE K_tags

TagRecords ==
    SeqOf([i \in 1..Len(request.tags) |->
        DictNode(<<<<K_Key, StrNode(request.tags[i][1])>>,
                   <<K_Value, request.tags[i][2]>>>>)])

NormalizedParams ==
    fix_input(request.params,
              IF request.convert_to_integer = "absent" THEN "True"
              ELSE request.convert_to_integer,
              IF request.convert_param_case = "Pascal" THEN "pc"
              ELSE IF request.convert_param_case = "camel" THEN "cc" ELSE "as_is")

\* C9: when tags is not empty, the params dispatched hold, under 'tags'
\* in the active case convention, exactly the {Key, Value} records of the raw
\* tags, whatever params held there; when tags is empty that key is as
\* fix_input left it.
C9_TagsExpandedAfterFixInput ==
    Invoked =>
        IF request.tags # <<>>
        THEN /\ TagsKeyExpected \in Keys(params.val)
             /\ GetItem(params.val, TagsKeyExpected) = ListNode(TagRecords)
        ELSE /\ TagsKeyExpected \in Keys(params.val)
                    <=> TagsKeyExpected \in Keys(NormalizedParams.val)
             /\ TagsKeyExpected \in Keys(params.val) =>
                    GetItem(params.val, TagsKeyExpected)
                        = GetItem(NormalizedParams.val, TagsKeyExpected)

C9_Witness ==
    /\ Invoked
    /\ request.convert_param_case = "Pascal" /\ request.convert_to_integer = "yes"
    /\ K_Tags \in Keys(request.params.val)
    /\ request.tags = <<<<<<"n">>, StrNode(<<"1","2">>)>>, <<<<"k">>, StrNode(OmitPrefix)>>>>
    /\ GetItem(params.val, K_Tags) =
          ListNode(<<DictNode(<<<<K_Key, StrNode(<<"n">>)>>, <<K_Value, StrNode(<<"1","2">>)>>>>),
                     DictNode(<<<<K_Key, StrNode(<<"k">>)>>, <<K_Value, StrNode(OmitPrefix)>>>>)>>)

\* the names of the StreamingBody leaves of a tree
RECURSIVE StreamsOf(_)
StreamsOf(n) ==
    IF n.kind = "stream" THEN {n.val}
    ELSE IF n.kind = "list" THEN UNION {StreamsOf(n.val[x]) : x \in 1..Len(n.val)}
    ELSE IF n.kind = "dict" THEN UNION {StreamsOf(n.val[x][2]) : x \in 1..Len(n.val)}
    ELSE {}

RECURSIVE HasRawLeaf(_)
HasRawLeaf(n) ==
    IF n.kind \in {"stream", "datetime"} THEN TRUE
    ELSE IF n.kind = "list" THEN \E x \in 1..Len(n.val) : HasRawLeaf(n.val[x])
    ELSE IF n.kind = "dict" THEN \E x \in 1..Len(n.val) : HasRawLeaf(n.val[x][2])
    ELSE FALSE

ReadsOf(name) == {i \in EventsOf("read") : log[i].arg = name}

\* C10: in a run that emits a response, every StreamingBody of the response,
\* at any depth, is read exactly once, before exit_json; in no run is a body
\* read twice; the response emitted has no StreamingBody or datetime leaf.
C10_StreamsDrainedOnceBeforeExit ==
    /\ \A i \in EventsOf("read") : Cardinality(ReadsOf(log[i].arg)) = 1
    /\ \A e \in EventsOf("exit_json") :
          /\ \A name \in StreamsOf(response) : \E i \in ReadsOf(name) : i < e
          /\ ~HasRawLeaf(final)
    /\ pc_main = "done" => Count("exit_json") = 1

C10_Witness ==
    /\ pc_main = "done"
    /\ log = <<Event("invoke", "describe_instances"), Event("read", "body1"),
               Event("read", "body2"), Event("exit_json", "response")>>
    /\ GetItem(final.val, <<"l","a","u","n","c","h","_","t","i","m","e">>)
          = StrNode(<<"2","0","1","6","-","0","3","-","0","9"," ",
                      "0","0",":","0","0",":","0","0">>)

===========================================================================
